---- MODULE Spec2Model ----
(***************************************************************************)
(* Model of IKeybind<NKey_, NEvent_, KbMax_> (src/src/IKeybind.h): the     *)
(* chord registry (assign / clear) and the per-cycle resolver (update /    *)
(* searchKeybind).  The keys (IPushButton) are an external collaborator:   *)
(* their refresh in update() is modelled as a free choice of a new state   *)
(* and press timestamp for every key.                                      *)
(***************************************************************************)
EXTENDS Integers, Sequences, FiniteSets

\* ---- instantiation of the template (compile-time constants) ----
Key_Count == 2
Event_Count == 2
Keybind_Max == 3

\* ---- bounds of the model ----
\* press timestamps range over 0..MaxTime
MaxTime == 1

KeyIdx == 0 .. (Key_Count - 1)
EventIdx == 0 .. (Event_Count - 1)
PosIdx == 0 .. (Keybind_Max - 1)
Times == 0 .. MaxTime

\* eState is a bitmask enumeration; a value is modelled as the set of its bits,
\* so that `a & b` is a non-empty intersection and eState::none is the empty set.
none == {}
idle == {"idle"}
push == {"push"}
hold == {"hold"}
delay == {"delay"}
release == {"release"}
\* the states a key reports: none or exactly one member
KeyStates == {none, idle, push, hold, delay, release}

\* aKey[j].id(): the caller-assigned identifier of the key stored at index j
KeyId(j) == 10 * (j + 1)
\* an identifier no managed key carries
UnknownId == 99

VARIABLES
    keyState,           \* aKey[j].state()
    keyPushTime,        \* aKey[j].pushTime()
    aKeybind,           \* aKeybind[event][position] = key index
    aKeybindSize,       \* aKeybindSize[event]
    aPrimaryKeyState,   \* aPrimaryKeyState[event]
    aEventOccurred,     \* aEventOccurred[event]
    aUsedAsModifier,    \* aUsedAsModifier[key]
    lastOp,             \* history: the last operation called and its outcome
    lastArgs,           \* history: the arguments of that call, where a
                        \* specification records them (AssignLogged)
    updated,            \* history: update() has run since construction
    \* histories of the cycle, kept while update() is the last operation:
    usedAtEntry,        \* aUsedAsModifier when that update() was entered
    neutralAtEntry      \* the update() before it had left every key neutral

vars == <<keyState, keyPushTime, aKeybind, aKeybindSize, aPrimaryKeyState,
          aEventOccurred, aUsedAsModifier, lastOp, lastArgs, updated,
          usedAtEntry, neutralAtEntry>>

\* an operation other than update() ends the cycle the histories describe
EndCycle ==
    /\ usedAtEntry' = [j \in KeyIdx |-> FALSE]
    /\ neutralAtEntry' = FALSE
    /\ UNCHANGED updated

\* (variant of ReturnedToNeutral: idle does not count)
ReturnedToNeutral_NoneOnly(st) == st = none

\* (variant of ReturnedToNeutral: release clears the flag as well)
ReturnedToNeutral_AlsoRelease(st) ==
    st = none \/ st \cap (idle \cup release) # {}

\* the test of update() for a key whose flag decays: refreshed to none, or
\* to a state that includes idle
ReturnedToNeutral(st) == st = none \/ st \cap idle # {}

\* the flag loop of update(): aUsedAsModifier after the refresh to states ks
Decay(ks, used) ==
    [j \in KeyIdx |-> IF ReturnedToNeutral(ks[j]) THEN FALSE ELSE used[j]]

\* ---- private helpers of the class -------------------------------------

\* (variant of isValidSequence: the timestamps are not compared)
isValidSequence_NoOrder(ks, kt, event_idx) ==
    /\ \A j \in 1 .. (aKeybindSize[event_idx] - 1) :
          ks[aKeybind[event_idx][j]] \cap (push \cup hold \cup delay) # {}
    /\ ks[aKeybind[event_idx][0]] # none

\* (variant of isValidSequence: the timestamp comparison reversed)
isValidSequence_Reversed(ks, kt, event_idx) ==
    /\ \A j \in 1 .. (aKeybindSize[event_idx] - 1) :
          /\ ks[aKeybind[event_idx][j]] \cap (push \cup hold \cup delay) # {}
          /\ ~(kt[aKeybind[event_idx][j]] < kt[aKeybind[event_idx][j - 1]])
    /\ ks[aKeybind[event_idx][0]] # none

\* isValidSequence(event_idx_), on the refreshed key states ks / timestamps kt
isValidSequence(ks, kt, event_idx) ==
    /\ \A j \in 1 .. (aKeybindSize[event_idx] - 1) :
          /\ ks[aKeybind[event_idx][j]] \cap (push \cup hold \cup delay) # {}
          /\ ~(kt[aKeybind[event_idx][j]] > kt[aKeybind[event_idx][j - 1]])
    /\ ks[aKeybind[event_idx][0]] # none

\* (variant of isUsedAsModifier: the flag is never seen)
isUsedAsModifier_Never(used, key_idx) == FALSE

isUsedAsModifier(used, key_idx) == used[key_idx]

\* (variant of isEmptyKeybind: no slot counts as empty)
isEmptyKeybind_Never(event_idx) == FALSE

isEmptyKeybind(event_idx) == aKeybindSize[event_idx] = 0

\* the keys markModifiersAsUsed(event_idx_) flags
ModifiersOf(event_idx) ==
    {aKeybind[event_idx][j] : j \in 1 .. (aKeybindSize[event_idx] - 1)}

\* (variant of markModifiersAsUsed: the primary key is flagged as well)
markModifiersAsUsed_WithPrimary(used, fired) ==
    [j \in KeyIdx |->
        used[j] \/ \E e \in fired : j \in ModifiersOf(e) \cup {aKeybind[e][0]}]

\* aUsedAsModifier after markModifiersAsUsed ran for every event of fired
markModifiersAsUsed(used, fired) ==
    [j \in KeyIdx |-> used[j] \/ \E e \in fired : j \in ModifiersOf(e)]

\* (variant of CandidateStep: a shorter chord is not skipped)
CandidateStep_NoLengthSkip(ks, kt, used, best, i) ==
    LET p == aKeybind[i][0] IN
    IF aKeybindSize[i] = 0 THEN best
    ELSE IF /\ best[p] # 0
            /\ aKeybindSize[i] = aKeybindSize[best[p] - 1]
            /\ aPrimaryKeyState[i] \cap ks[p] = {} THEN best
    ELSE IF used[p] THEN best
    ELSE IF ~isValidSequence(ks, kt, i) THEN best
    ELSE [best EXCEPT ![p] = i + 1]

\* (variant of CandidateStep: no required-state test between equal lengths)
CandidateStep_NoStateTest(ks, kt, used, best, i) ==
    LET p == aKeybind[i][0] IN
    IF aKeybindSize[i] = 0 THEN best
    ELSE IF /\ best[p] # 0
            /\ aKeybindSize[i] < aKeybindSize[best[p] - 1] THEN best
    ELSE IF used[p] THEN best
    ELSE IF ~isValidSequence(ks, kt, i) THEN best
    ELSE [best EXCEPT ![p] = i + 1]

\* (variant of CandidateStep: a chord with a flagged modifier is skipped too)
CandidateStep_ModifierExclusive(ks, kt, used, best, i) ==
    LET p == aKeybind[i][0] IN
    IF isEmptyKeybind(i) THEN best
    ELSE IF /\ best[p] # 0
            /\ aKeybindSize[i] < aKeybindSize[best[p] - 1] THEN best
    ELSE IF /\ best[p] # 0
            /\ aKeybindSize[i] = aKeybindSize[best[p] - 1]
            /\ aPrimaryKeyState[i] \cap ks[p] = {} THEN best
    ELSE IF isUsedAsModifier(used, p) THEN best
    ELSE IF \E k \in ModifiersOf(i) : isUsedAsModifier(used, k) THEN best
    ELSE IF ~isValidSequence(ks, kt, i) THEN best
    ELSE [best EXCEPT ![p] = i + 1]

\* (variant of CandidateStep: a longer chord, too, replaces the best one only
\* when the primary key is in its required state)
CandidateStep_StateTestOnLonger(ks, kt, used, best, i) ==
    LET p == aKeybind[i][0] IN
    IF isEmptyKeybind(i) THEN best
    ELSE IF /\ best[p] # 0
            /\ aKeybindSize[i] < aKeybindSize[best[p] - 1] THEN best
    ELSE IF /\ best[p] # 0
            /\ aPrimaryKeyState[i] \cap ks[p] = {} THEN best
    ELSE IF isUsedAsModifier(used, p) THEN best
    ELSE IF ~isValidSequence(ks, kt, i) THEN best
    ELSE [best EXCEPT ![p] = i + 1]

\* one iteration of the candidate loop of searchKeybind: the table
\* aKeyBestEventIdx (event index + 1, 0 = none) after looking at slot i
CandidateStep(ks, kt, used, best, i) ==
    LET p == aKeybind[i][0] IN
    IF isEmptyKeybind(i) THEN best
    ELSE IF /\ best[p] # 0
            /\ aKeybindSize[i] < aKeybindSize[best[p] - 1] THEN best
    ELSE IF /\ best[p] # 0
            /\ aKeybindSize[i] = aKeybindSize[best[p] - 1]
            /\ aPrimaryKeyState[i] \cap ks[p] = {} THEN best
    ELSE IF isUsedAsModifier(used, p) THEN best
    ELSE IF ~isValidSequence(ks, kt, i) THEN best
    ELSE [best EXCEPT ![p] = i + 1]

\* the candidate loop over slots 0 .. n-1
RECURSIVE CandidatePass(_, _, _, _)
CandidatePass(ks, kt, used, n) ==
    IF n = 0 THEN [k \in KeyIdx |-> 0]
    ELSE LET prev == CHOOSE b \in {CandidatePass(ks, kt, used, n - 1)} : TRUE
         IN CandidateStep(ks, kt, used, prev, n - 1)

\* (variant of Finalized: the required state is not checked again)
Finalized_NoStateCheck(ks, best) ==
    {e \in EventIdx : \E i \in KeyIdx : best[i] = e + 1}

\* (variant of Finalized: every slot on a key with a candidate is finalized,
\* not only the recorded one)
Finalized_EveryMatch(ks, best) ==
    {e \in EventIdx : \E i \in KeyIdx :
        /\ best[i] # 0
        /\ aKeybindSize[e] > 0 /\ aKeybind[e][0] = i
        /\ aPrimaryKeyState[e] \cap ks[i] # {}}

\* the finalization loop: the events whose fired flag is set
Finalized(ks, best) ==
    {e \in EventIdx : \E i \in KeyIdx :
        /\ best[i] = e + 1
        /\ aPrimaryKeyState[e] \cap ks[i] # {}}

\* ---- operations ---------------------------------------------------------

Init ==
    /\ keyState = [j \in KeyIdx |-> none]
    /\ keyPushTime = [j \in KeyIdx |-> 0]
    /\ aKeybind = [e \in EventIdx |-> [q \in PosIdx |-> 0]]
    /\ aKeybindSize = [e \in EventIdx |-> 0]
    /\ aPrimaryKeyState = [e \in EventIdx |-> none]
    /\ aEventOccurred = [e \in EventIdx |-> FALSE]
    /\ aUsedAsModifier = [j \in KeyIdx |-> FALSE]
    /\ lastOp = "init"
    /\ lastArgs = << >>
    /\ usedAtEntry = [j \in KeyIdx |-> FALSE]
    /\ neutralAtEntry = FALSE
    /\ updated = FALSE

\* (variant of update(): the fired flags of the previous cycle are kept)
UpdateTo_KeepFired(States, Stamps) ==
    \E ks \in [KeyIdx -> States], kt \in [KeyIdx -> Stamps] :
        \E decayed \in {Decay(ks, aUsedAsModifier)} :
        \E best \in {CandidatePass(ks, kt, decayed, Event_Count)} :
        \E fired \in {Finalized(ks, best)} :
        /\ keyState' = ks
        /\ keyPushTime' = kt
        /\ aEventOccurred' = [e \in EventIdx |-> aEventOccurred[e] \/ e \in fired]
        /\ aUsedAsModifier' = markModifiersAsUsed(decayed, fired)
        /\ updated' = TRUE
        /\ usedAtEntry' = aUsedAsModifier
        /\ neutralAtEntry' = (/\ updated
                              /\ \A j \in KeyIdx : ReturnedToNeutral(keyState[j]))
        /\ lastOp' = "update"
        /\ lastArgs' = << >>
        /\ UNCHANGED <<aKeybind, aKeybindSize, aPrimaryKeyState>>

\* update(): clear the fired flags, refresh every key, decay the flags of
\* neutral keys, then searchKeybind(); the refresh leaves every key in a state
\* of States with a press timestamp of Stamps
UpdateTo(States, Stamps) ==
    \E ks \in [KeyIdx -> States], kt \in [KeyIdx -> Stamps] :
        \E decayed \in {Decay(ks, aUsedAsModifier)} :
        \E best \in {CandidatePass(ks, kt, decayed, Event_Count)} :
        \E fired \in {Finalized(ks, best)} :
        /\ keyState' = ks
        /\ keyPushTime' = kt
        /\ aEventOccurred' = [e \in EventIdx |-> e \in fired]
        /\ aUsedAsModifier' = markModifiersAsUsed(decayed, fired)
        /\ updated' = TRUE
        /\ usedAtEntry' = aUsedAsModifier
        /\ neutralAtEntry' = (/\ updated
                              /\ \A j \in KeyIdx : ReturnedToNeutral(keyState[j]))
        /\ lastOp' = "update"
        /\ lastArgs' = << >>
        /\ UNCHANGED <<aKeybind, aKeybindSize, aPrimaryKeyState>>

\* update() with keys that can be refreshed to any state and timestamp
Update == UpdateTo(KeyStates, Times)

\* ---- assign<N>(event_idx_, key_id_, key_state_) ----

\* the inner lookup loop: the index j of the first key whose id() is id,
\* Key_Count when there is none
IndexOfId(id) ==
    IF \E j \in KeyIdx : KeyId(j) = id
    THEN CHOOSE j \in KeyIdx : KeyId(j) = id /\ \A h \in 0 .. (j - 1) : KeyId(h) # id
    ELSE Key_Count

\* (variant of StoredPrefix: an id without a key does not stop the loop)
StoredPrefix_Whole(key_id, i) == Len(key_id)

\* the number of leading ids of key_id the outer loop stores before it
\* either finishes (Len(key_id)) or meets an id without a key
RECURSIVE StoredPrefix(_, _)
StoredPrefix(key_id, i) ==
    IF i = Len(key_id) THEN i
    ELSE IF IndexOfId(key_id[i + 1]) = Key_Count THEN i
    ELSE StoredPrefix(key_id, i + 1)

\* row aKeybind[event_idx_] after the outer loop stored ids 0 .. n-1 of key_id
\* reversed: id number i goes to position N - i - 1
StoreReversed(row, key_id, n) ==
    [q \in PosIdx |->
        IF \E i \in 0 .. (n - 1) : Len(key_id) - i - 1 = q
        THEN IndexOfId(key_id[Len(key_id) - q])
        ELSE row[q]]

\* the two range checks: std::out_of_range, nothing written
AssignOutOfRange(event_idx, key_id, key_state) ==
    /\ event_idx >= Event_Count \/ Len(key_id) > Keybind_Max
    /\ lastOp' = "assign_out_of_range"
    /\ EndCycle
    /\ UNCHANGED <<keyState, keyPushTime, aKeybind, aKeybindSize, aPrimaryKeyState,
                   aEventOccurred, aUsedAsModifier>>

\* (variant of AssignInvalid: the chord length is not checked first)
AssignInvalid_NoLengthCheck(event_idx, key_id, key_state) ==
    /\ event_idx < Event_Count
    /\ StoredPrefix(key_id, 0) < Len(key_id)
    /\ aKeybind' = [aKeybind EXCEPT ![event_idx] =
                        StoreReversed(@, key_id, StoredPrefix(key_id, 0))]
    /\ lastOp' = "assign_invalid_argument"
    /\ EndCycle
    /\ UNCHANGED <<keyState, keyPushTime, aKeybindSize, aPrimaryKeyState,
                   aEventOccurred, aUsedAsModifier>>

\* (variant of AssignInvalid: the size is written before the lookup fails)
AssignInvalid_SetsSize(event_idx, key_id, key_state) ==
    /\ event_idx < Event_Count
    /\ Len(key_id) <= Keybind_Max
    /\ StoredPrefix(key_id, 0) < Len(key_id)
    /\ aKeybind' = [aKeybind EXCEPT ![event_idx] =
                        StoreReversed(@, key_id, StoredPrefix(key_id, 0))]
    /\ aKeybindSize' = [aKeybindSize EXCEPT ![event_idx] = Len(key_id)]
    /\ lastOp' = "assign_invalid_argument"
    /\ EndCycle
    /\ UNCHANGED <<keyState, keyPushTime, aPrimaryKeyState,
                   aEventOccurred, aUsedAsModifier>>

\* an id without a key: std::invalid_argument after the ids before it were stored
AssignInvalid(event_idx, key_id, key_state) ==
    /\ event_idx < Event_Count
    /\ Len(key_id) <= Keybind_Max
    /\ StoredPrefix(key_id, 0) < Len(key_id)
    /\ aKeybind' = [aKeybind EXCEPT ![event_idx] =
                        StoreReversed(@, key_id, StoredPrefix(key_id, 0))]
    /\ lastOp' = "assign_invalid_argument"
    /\ EndCycle
    /\ UNCHANGED <<keyState, keyPushTime, aKeybindSize, aPrimaryKeyState,
                   aEventOccurred, aUsedAsModifier>>

\* every id found: the chord, its required state and its size are stored
AssignOk(event_idx, key_id, key_state) ==
    /\ event_idx < Event_Count
    /\ Len(key_id) <= Keybind_Max
    /\ StoredPrefix(key_id, 0) = Len(key_id)
    /\ aKeybind' = [aKeybind EXCEPT ![event_idx] =
                        StoreReversed(@, key_id, Len(key_id))]
    /\ aPrimaryKeyState' = [aPrimaryKeyState EXCEPT ![event_idx] = key_state]
    /\ aKeybindSize' = [aKeybindSize EXCEPT ![event_idx] = Len(key_id)]
    /\ lastOp' = "assign"
    /\ EndCycle
    /\ UNCHANGED <<keyState, keyPushTime, aEventOccurred, aUsedAsModifier>>

\* assign called with one of the argument triples <<event_idx_, key_id_, key_state_>>
\* of Inputs
Assign(Inputs) ==
    \E a \in Inputs :
        /\ \/ AssignOutOfRange(a[1], a[2], a[3])
           \/ AssignInvalid(a[1], a[2], a[3])
           \/ AssignOk(a[1], a[2], a[3])
        /\ lastArgs' = << >>

\* the same call, with its arguments kept in the history
AssignLogged(Inputs) ==
    \E a \in Inputs :
        /\ \/ AssignOutOfRange(a[1], a[2], a[3])
           \/ AssignInvalid(a[1], a[2], a[3])
           \/ AssignOk(a[1], a[2], a[3])
        /\ lastArgs' = a

\* assign called with arguments that pass every check
AssignValid(Inputs) ==
    \E a \in Inputs : AssignOk(a[1], a[2], a[3]) /\ lastArgs' = << >>

\* (variant of clear(): the exclusivity flags are left as they are)
Clear_KeepFlags ==
    /\ aKeybind' = [e \in EventIdx |-> [q \in PosIdx |-> 0]]
    /\ aKeybindSize' = [e \in EventIdx |-> 0]
    /\ aPrimaryKeyState' = [e \in EventIdx |-> none]
    /\ aEventOccurred' = [e \in EventIdx |-> FALSE]
    /\ lastOp' = "clear"
    /\ lastArgs' = << >>
    /\ EndCycle
    /\ UNCHANGED <<keyState, keyPushTime, aUsedAsModifier>>

\* clear()
Clear ==
    /\ aKeybind' = [e \in EventIdx |-> [q \in PosIdx |-> 0]]
    /\ aKeybindSize' = [e \in EventIdx |-> 0]
    /\ aPrimaryKeyState' = [e \in EventIdx |-> none]
    /\ aEventOccurred' = [e \in EventIdx |-> FALSE]
    /\ aUsedAsModifier' = [j \in KeyIdx |-> FALSE]
    /\ lastOp' = "clear"
    /\ lastArgs' = << >>
    /\ EndCycle
    /\ UNCHANGED <<keyState, keyPushTime>>

\* ---- query surface ------------------------------------------------------

\* isEvent(event_idx_): false for an index out of range
isEvent(event_idx) ==
    IF event_idx >= Event_Count THEN FALSE ELSE aEventOccurred[event_idx]

\* ---- specifications ---------------------------------------------------
\* Each specification starts from the constructed object and lets a caller
\* interleave the operations freely; they differ in the argument values the
\* caller passes to assign.

\* every operation and every outcome of assign: an unknown id, an event index
\* and a chord length out of range, an empty chord
AllInputs ==
    (0 .. Event_Count)
        \X {<<10, 20>>, << >>, <<UnknownId>>, <<10, 10, 10, 20>>}
        \X {push}

Next == Assign(AllInputs) \/ Clear \/ Update

Spec == Init /\ [][Next]_vars

\* a chord and a one-key chord on its modifier: consumption of a modifier
ChordInputs ==
    EventIdx \X {<<10, 20>>} \X {push}
        \cup EventIdx \X {<<10>>} \X {push, idle}

NextChord == AssignValid(ChordInputs) \/ Clear \/ Update

SpecChord == Init /\ [][NextChord]_vars

\* chords of length 1, 2 and 3 on one primary key: the longest match
LenInputs == EventIdx \X {<<20>>, <<10, 20>>, <<10, 10, 20>>} \X {push}

NextLen == AssignValid(LenInputs) \/ Clear \/ Update

SpecLen == Init /\ [][NextLen]_vars

\* chords of equal length on one primary key, with required states that
\* overlap and that differ: the tie-break
TieInputs ==
    EventIdx \X {<<10, 20>>} \X {push}
        \cup EventIdx \X {<<20, 20>>} \X {push \cup hold}

NextTie == AssignValid(TieInputs) \/ Clear \/ Update

SpecTie == Init /\ [][NextTie]_vars


\* one chord in both slots with different required states: a modifier that
\* stays down from one event to the next
ModInputs == EventIdx \X {<<10, 20>>} \X {push, hold}

NextMod == AssignValid(ModInputs) \/ Clear \/ Update

SpecMod == Init /\ [][NextMod]_vars

\* a chord of one key and a chord of two keys on the same primary key, with
\* required states that exclude each other: the longer chord shadows
ShadowInputs ==
    EventIdx \X {<<20>>} \X {push}
        \cup EventIdx \X {<<10, 20>>} \X {hold}

NextShadow == AssignValid(ShadowInputs) \/ Clear \/ Update

SpecShadow == Init /\ [][NextShadow]_vars

\* every outcome of assign with its arguments recorded: an id without a key
\* after ids that are stored, an event index and a chord length out of range
\* together with an unknown id, chords of one and of two keys; the keys are
\* all the way up or freshly down, which is enough to set every flag
AssignInputs ==
    (0 .. Event_Count)
        \X {<<20, 20, UnknownId>>, <<10>>, <<10, 20>>, <<UnknownId, 10, 10, 20>>}
        \X {push, hold}

NextAssign == AssignLogged(AssignInputs) \/ Clear \/ UpdateTo({none, push}, {0})

SpecAssign == Init /\ [][NextAssign]_vars

\* ---- vocabulary of the properties ---------------------------------------
\* Stated on the observable state after update(), apart from the resolver's
\* own helpers.

AfterUpdate == lastOp = "update"

Assigned(e) == aKeybindSize[e] > 0
Primary(e) == aKeybind[e][0]
ChordKeys(e) == {aKeybind[e][q] : q \in 0 .. (aKeybindSize[e] - 1)}
ModifierKeys(e) == {aKeybind[e][q] : q \in 1 .. (aKeybindSize[e] - 1)}

Active(k) == keyState[k] \in {push, hold, delay}
Neutral(k) == keyState[k] \in {none, idle}

\* every modifier of e is down
ModifiersActive(e) == \A k \in ModifierKeys(e) : Active(k)
\* the keys of e went down in declared order: stored position q holds the key
\* declared right before the key of position q - 1
PressedInOrder(e) ==
    \A q \in 1 .. (aKeybindSize[e] - 1) :
        keyPushTime[aKeybind[e][q]] <= keyPushTime[aKeybind[e][q - 1]]
\* the primary key of e is in a state of e's required-state mask
InRequiredState(e) == keyState[Primary(e)] \cap aPrimaryKeyState[e] # {}
\* e is assigned, its modifiers are down in order, its primary is as required
ChordDown(e) ==
    Assigned(e) /\ ModifiersActive(e) /\ PressedInOrder(e) /\ InRequiredState(e)
\* no key outside the chord of e has left neutral
OthersNeutral(e) == \A k \in KeyIdx \ ChordKeys(e) : Neutral(k)

\* another slot holds a chord on the primary key of e that is down as well and
\* wins the tie-break: it is longer, or as long, registered later and in its
\* required state
Outranked(e) ==
    \E f \in EventIdx \ {e} :
        /\ Assigned(f) /\ Primary(f) = Primary(e)
        /\ ModifiersActive(f) /\ PressedInOrder(f)
        /\ \/ aKeybindSize[f] > aKeybindSize[e]
           \/ /\ aKeybindSize[f] = aKeybindSize[e]
              /\ f > e
              /\ InRequiredState(f)

\* key k entered the last update() flagged and was refreshed to a state that
\* keeps the flag
Carried(k) == usedAtEntry[k] /\ ~Neutral(k)

\* ---- C1 -------------------------------------------------------------------
\* C1 as claimed: after all keys were neutral at an update() and the keys of
\* chord e were then pressed in declared order, with the primary in its
\* required state at the next update(), e has fired, whatever the other slots
\* hold.
C1_AsClaimed ==
    (AfterUpdate /\ neutralAtEntry) =>
        \A e \in EventIdx :
            (ChordDown(e) /\ OthersNeutral(e)) => aEventOccurred[e]

\* C1 (amended): under the same conditions e has fired unless another slot
\* holds a chord on the same primary key that is down too and is longer, or is
\* equally long, sits in a higher slot and has its required state satisfied.
C1_FiresUnlessOutranked ==
    (AfterUpdate /\ neutralAtEntry) =>
        \A e \in EventIdx :
            (ChordDown(e) /\ OthersNeutral(e) /\ ~Outranked(e)) => aEventOccurred[e]

\* a two-key chord pressed from neutral, strictly in order, fired while the
\* other slot holds a shorter chord on the same primary key
C1_Witness ==
    /\ AfterUpdate /\ neutralAtEntry
    /\ \E e \in EventIdx, f \in EventIdx :
          /\ f # e
          /\ ChordDown(e) /\ OthersNeutral(e) /\ ~Outranked(e)
          /\ aKeybindSize[e] = 2
          /\ keyPushTime[aKeybind[e][1]] < keyPushTime[aKeybind[e][0]]
          /\ Assigned(f) /\ Primary(f) = Primary(e)
          /\ aEventOccurred[e]

\* ---- C2 -------------------------------------------------------------------
\* C2: in the update() in which chord e fires after its keys were pressed from
\* neutral in declared order, no other slot whose keys are a subset of e's keys
\* has fired.
C2_NoSubsetFires ==
    (AfterUpdate /\ neutralAtEntry) =>
        \A e \in EventIdx, f \in EventIdx :
            (/\ e # f
             /\ ChordDown(e) /\ OthersNeutral(e) /\ aEventOccurred[e]
             /\ Assigned(f) /\ ChordKeys(f) \subseteq ChordKeys(e))
                => ~aEventOccurred[f]

\* ---- C3 -------------------------------------------------------------------
\* C3: after any update() no key is a modifier of one fired event and the
\* primary key of another fired event.
C3_SameCycleExclusive ==
    AfterUpdate =>
        \A a \in EventIdx, b \in EventIdx :
            (a # b /\ aEventOccurred[a] /\ aEventOccurred[b])
                => Primary(b) \notin ModifierKeys(a)

\* ---- C4 -------------------------------------------------------------------
\* C4: a key that entered update() carrying the exclusivity flag (it was a
\* modifier of an event that fired, and no clear() and no neutral refresh
\* happened since) and that is refreshed to push, hold, delay or release, is
\* not the primary key of any event that fires in that update().
C4_HeldModifierNotPrimary ==
    AfterUpdate =>
        \A x \in KeyIdx :
            Carried(x) =>
                \A f \in EventIdx :
                    (Assigned(f) /\ Primary(f) = x) => ~aEventOccurred[f]

\* a chord on a carried key is down, in its required state and not outranked,
\* and has not fired
C4_Witness ==
    /\ AfterUpdate
    /\ \E x \in KeyIdx, f \in EventIdx :
          /\ Carried(x)
          /\ Primary(f) = x /\ ChordDown(f) /\ ~Outranked(f)
          /\ ~aEventOccurred[f]

\* ---- C5 -------------------------------------------------------------------
\* C5: a key refreshed to none or idle leaves update() without the flag, and a
\* key that does not carry the flag into chord resolution (not flagged at
\* entry, or refreshed to neutral) is the primary key of a firing event
\* whenever a chord on it is down and wins the tie-break.
C5_EligibleAgain ==
    AfterUpdate =>
        \A x \in KeyIdx :
            /\ Neutral(x) => ~aUsedAsModifier[x]
            /\ ~Carried(x) =>
                  \A f \in EventIdx :
                      (Primary(f) = x /\ ChordDown(f) /\ ~Outranked(f))
                          => aEventOccurred[f]

\* a key flagged at entry went idle and fired a chord in that same update()
C5_Witness ==
    /\ AfterUpdate
    /\ \E x \in KeyIdx, f \in EventIdx :
          /\ usedAtEntry[x] /\ Neutral(x) /\ ~aUsedAsModifier[x]
          /\ Primary(f) = x /\ ChordDown(f)
          /\ aEventOccurred[f]

\* ---- C6 -------------------------------------------------------------------
\* both chords a and b are on one primary key, which is down, and the keys of
\* both are down in declared order
BothDown(a, b) ==
    /\ Assigned(a) /\ Assigned(b) /\ Primary(a) = Primary(b)
    /\ Active(Primary(a))
    /\ ModifiersActive(a) /\ PressedInOrder(a)
    /\ ModifiersActive(b) /\ PressedInOrder(b)

\* C6: of two chords on the same primary key with all keys down in declared
\* order, in either slot order, the shorter one (length 2 against 3, length 1
\* against 2) has not fired; the longer one has fired, and its modifiers are
\* flagged, when the primary key is in the longer chord's required state and
\* does not carry the exclusivity flag.
C6_LongestMatch ==
    AfterUpdate =>
        \A a \in EventIdx, b \in EventIdx :
            (BothDown(a, b) /\ aKeybindSize[a] < aKeybindSize[b]) =>
                /\ ~aEventOccurred[a]
                /\ (InRequiredState(b) /\ ~Carried(Primary(b))) =>
                      /\ aEventOccurred[b]
                      /\ \A k \in ModifierKeys(b) : aUsedAsModifier[k]

\* the length-3 chord sits in the lower slot, the length-2 chord in the higher
\* one; both are down and in their required state, and only the length-3 chord
\* fired
C6_Witness ==
    /\ AfterUpdate
    /\ BothDown(1, 0)
    /\ aKeybindSize[1] = 2 /\ aKeybindSize[0] = 3
    /\ InRequiredState(1) /\ InRequiredState(0)
    /\ aEventOccurred[0] /\ ~aEventOccurred[1]
    /\ \A k \in ModifierKeys(0) : aUsedAsModifier[k]

\* ---- C7 -------------------------------------------------------------------
\* C7: of two chords of equal length on the same primary key that both pass
\* the exclusivity and the sequence check, the one in the higher slot fires
\* and the other does not when the primary key's state satisfies both required
\* states; when it satisfies only one of them, exactly that one fires.
C7_EqualLengthTieBreak ==
    AfterUpdate =>
        \A a \in EventIdx, b \in EventIdx :
            (/\ a < b
             /\ Assigned(a) /\ Assigned(b) /\ Primary(a) = Primary(b)
             /\ aKeybindSize[a] = aKeybindSize[b]
             /\ ~Carried(Primary(a))
             /\ ModifiersActive(a) /\ PressedInOrder(a)
             /\ ModifiersActive(b) /\ PressedInOrder(b)) =>
                /\ (InRequiredState(a) /\ InRequiredState(b)) =>
                      (aEventOccurred[b] /\ ~aEventOccurred[a])
                /\ (InRequiredState(a) /\ ~InRequiredState(b)) =>
                      (aEventOccurred[a] /\ ~aEventOccurred[b])
                /\ (~InRequiredState(a) /\ InRequiredState(b)) =>
                      (aEventOccurred[b] /\ ~aEventOccurred[a])

\* two different chords of length 2 on one primary key with different required
\* states, both satisfied: the higher slot fired, the lower did not
C7_Witness ==
    /\ AfterUpdate
    /\ Assigned(0) /\ Assigned(1) /\ Primary(0) = Primary(1)
    /\ aKeybindSize[0] = 2 /\ aKeybindSize[1] = 2
    /\ ModifierKeys(0) # ModifierKeys(1)
    /\ aPrimaryKeyState[0] # aPrimaryKeyState[1]
    /\ ChordDown(0) /\ ChordDown(1)
    /\ aEventOccurred[1] /\ ~aEventOccurred[0]

\* ---- C8 -------------------------------------------------------------------
\* some adjacent pair of the chord of e went down against the declared order:
\* the later-declared key (position q - 1) strictly before the earlier-declared
\* one (position q)
OrderViolated(e) ==
    \E q \in 1 .. (aKeybindSize[e] - 1) :
        keyPushTime[aKeybind[e][q - 1]] < keyPushTime[aKeybind[e][q]]

\* C8: an event has not fired after an update() in which a later-declared key
\* of its chord carries a press timestamp strictly earlier than the key
\* declared right before it.
C8_OrderViolation ==
    AfterUpdate =>
        \A e \in EventIdx : (Assigned(e) /\ OrderViolated(e)) => ~aEventOccurred[e]

\* every key of the chord is down and the primary is in its required state,
\* the order is violated, the key does not carry the flag: the event did not
\* fire
C8_Witness ==
    /\ AfterUpdate
    /\ \E e \in EventIdx :
          /\ Assigned(e) /\ OrderViolated(e)
          /\ ModifiersActive(e) /\ InRequiredState(e) /\ Active(Primary(e))
          /\ ~Carried(Primary(e))
          /\ ~aEventOccurred[e]

\* ---- C9 -------------------------------------------------------------------
\* C9: an event that has fired in update() is assigned, each of its modifier
\* keys is in push, hold or delay, and its primary key's state meets its
\* required-state mask.
C9_FiringSound ==
    AfterUpdate =>
        \A e \in EventIdx :
            aEventOccurred[e] =>
                (Assigned(e) /\ ModifiersActive(e) /\ InRequiredState(e))

\* a two-key chord fired
C9_Witness ==
    /\ AfterUpdate
    /\ \E e \in EventIdx : aEventOccurred[e] /\ aKeybindSize[e] = 2

\* ---- C10 ------------------------------------------------------------------
\* C10: a slot of size 0 has not fired after update().
C10_UnassignedNeverFires ==
    AfterUpdate =>
        \A e \in EventIdx : aKeybindSize[e] = 0 => ~aEventOccurred[e]

\* a slot of size 0 that still holds a required state and a stored key, which
\* is in that state and not flagged, did not fire
C10_Witness ==
    /\ AfterUpdate
    /\ \E e \in EventIdx :
          /\ aKeybindSize[e] = 0
          /\ keyState[aKeybind[e][0]] \cap aPrimaryKeyState[e] # {}
          /\ ~Carried(aKeybind[e][0])
          /\ ~aEventOccurred[e]

\* ---- C11 ------------------------------------------------------------------
\* C11: right after clear(), whatever was called before it, isEvent(i) is
\* false for every index i, in range or not, and every definition, size,
\* required state, fired flag and exclusivity flag has the value the
\* constructor gives it; update() and assign read nothing else of the object
\* (the keys are refreshed from outside), so what follows is what follows
\* construction.
C11_ClearIsFresh ==
    lastOp = "clear" =>
        /\ \A i \in 0 .. Event_Count : ~isEvent(i)
        /\ aKeybind = [e \in EventIdx |-> [q \in PosIdx |-> 0]]
        /\ aKeybindSize = [e \in EventIdx |-> 0]
        /\ aPrimaryKeyState = [e \in EventIdx |-> {}]
        /\ aEventOccurred = [e \in EventIdx |-> FALSE]
        /\ aUsedAsModifier = [k \in KeyIdx |-> FALSE]

\* clear() was called while the keys of a chord were down, after an update()
C11_Witness ==
    /\ lastOp = "clear"
    /\ updated
    /\ \A k \in KeyIdx : Active(k)
    /\ keyPushTime[0] < keyPushTime[1]

\* ---- C12 ------------------------------------------------------------------
\* C12: an assign whose event index is >= Event_Count or whose chord is longer
\* than Keybind_Max ends in out_of_range, also when an id of the chord has no
\* key, and leaves every definition, size, required state, fired flag and
\* exclusivity flag as it was.
C12_OutOfRange ==
    [][(/\ lastArgs' # << >>
        /\ lastArgs'[1] >= Event_Count \/ Len(lastArgs'[2]) > Keybind_Max)
           => /\ lastOp' = "assign_out_of_range"
              /\ UNCHANGED <<aKeybind, aKeybindSize, aPrimaryKeyState,
                             aEventOccurred, aUsedAsModifier>>]_vars

\* an assign with an event index out of range and an unknown id ended in
\* out_of_range on a registry that holds a chord, a fired flag and an
\* exclusivity flag
C12_Witness ==
    /\ lastOp = "assign_out_of_range"
    /\ lastArgs[1] >= Event_Count
    /\ \E i \in 1 .. Len(lastArgs[2]) : lastArgs[2][i] = UnknownId
    /\ \E e \in EventIdx : aKeybindSize[e] = 2 /\ aEventOccurred[e]
    /\ \E k \in KeyIdx : aUsedAsModifier[k]

\* ---- C13 ------------------------------------------------------------------
\* the ids a managed key carries
KnownIds == {10 * (j + 1) : j \in KeyIdx}

\* C13: an assign within range with an id that no key carries ends in
\* invalid_argument and changes nothing but key positions of its own slot:
\* that slot's size and required state, the other slots, the fired and the
\* exclusivity flags stay.  An assign within range whose ids are all known
\* succeeds and leaves in its slot the size, the required state and, in
\* positions 0 .. size-1 (all that update() reads), the keys of its arguments
\* reversed, whatever an earlier failure wrote there.
C13_InvalidReference ==
    [][(/\ lastArgs' # << >>
        /\ lastArgs'[1] < Event_Count /\ Len(lastArgs'[2]) <= Keybind_Max)
           => LET e == lastArgs'[1]
                  key_id == lastArgs'[2]
                  N == Len(key_id)
              IN  IF \E i \in 1 .. N : key_id[i] \notin KnownIds
                  THEN /\ lastOp' = "assign_invalid_argument"
                       /\ \A f \in EventIdx \ {e} : aKeybind'[f] = aKeybind[f]
                       /\ UNCHANGED <<aKeybindSize, aPrimaryKeyState,
                                      aEventOccurred, aUsedAsModifier>>
                  ELSE /\ lastOp' = "assign"
                       /\ aKeybindSize'[e] = N
                       /\ aPrimaryKeyState'[e] = lastArgs'[3]
                       /\ \A q \in 0 .. (N - 1) :
                             10 * (aKeybind'[e][q] + 1) = key_id[N - q]]_vars

\* a successful assign of a chord of two keys to a slot in which a failed
\* assign of three ids had stored a key at position 2
C13_Witness ==
    /\ lastOp = "assign"
    /\ aKeybindSize[lastArgs[1]] = 2
    /\ aKeybind[lastArgs[1]][2] # 0
    /\ aKeybind[lastArgs[1]][1] = 0

\* ---- C14 ------------------------------------------------------------------
\* C14: after update() isEvent(e) tells what that update() resolved and nothing
\* of the cycles before: it is true exactly when the chord of e is down (every
\* modifier active, pressed in order, the primary in its required state), its
\* primary key does not carry the exclusivity flag and no other slot outranks
\* it.  An event that had fired before and is not selected now reads false.
C14_FiredThisCycle ==
    AfterUpdate =>
        \A e \in EventIdx :
            isEvent(e) <=>
                (ChordDown(e) /\ ~Carried(Primary(e)) /\ ~Outranked(e))

\* the key that a fired chord had flagged is still held, the chord is no
\* longer down, and no event reads fired
C14_Witness ==
    /\ AfterUpdate
    /\ \E e \in EventIdx, k \in KeyIdx :
          /\ aKeybindSize[e] = 2 /\ k \in ModifierKeys(e)
          /\ Carried(k)
          /\ ~InRequiredState(e)
    /\ \A e \in EventIdx : ~isEvent(e)

\* ---- C15 ------------------------------------------------------------------
\* C15: whatever assigns (successful or failed), clear() and update() calls
\* were made, every slot has a size of at most Keybind_Max and holds in each
\* of its positions 0 .. size-1 the index of a managed key.
C15_RegistryInvariant ==
    \A e \in EventIdx :
        /\ aKeybindSize[e] \in 0 .. Keybind_Max
        /\ \A q \in 0 .. (aKeybindSize[e] - 1) : aKeybind[e][q] \in 0 .. (Key_Count - 1)

\* after an update(), a slot of size 2 that a failed assign has written to
\* sits next to a slot of size 1, and the last assign called was rejected for
\* its length
C15_Witness ==
    /\ updated
    /\ lastOp = "assign_out_of_range"
    /\ Len(lastArgs[2]) > Keybind_Max
    /\ \E e \in EventIdx, f \in EventIdx :
          /\ aKeybindSize[e] = 2 /\ aKeybind[e][2] # 0
          /\ aKeybindSize[f] = 1

\* ---- C16 ------------------------------------------------------------------
\* C16 as claimed: a key that is a modifier of an event fired by update() is
\* not a modifier of a different event fired by that same update(), nor, when
\* the next operation is update() again and the key is still held, of a
\* different event fired by that one.
C16_ModifierExclusive ==
    [][lastOp' = "update" =>
        /\ \A a \in EventIdx, b \in EventIdx :
              (a # b /\ aEventOccurred'[a] /\ aEventOccurred'[b])
                  => ModifierKeys(a) \cap ModifierKeys(b) = {}
        /\ lastOp = "update" =>
              \A a \in EventIdx, b \in EventIdx :
                  \A k \in ModifierKeys(a) \cap ModifierKeys(b) :
                      (/\ a # b
                       /\ aEventOccurred[a]
                       /\ keyState'[k] \notin {none, idle})
                          => ~aEventOccurred'[b]]_vars

\* C16 (amended): consumption does not bar a key from being a modifier again.
\* When a key was a modifier of an event fired by update(), the next operation
\* is update() again and the key is still held, a different event that has the
\* key as a modifier fires exactly when its own chord is down, its primary key
\* does not carry the flag and no other slot outranks it.
C16_ModifierReused ==
    [][(lastOp = "update" /\ lastOp' = "update") =>
        \A a \in EventIdx, b \in EventIdx :
            \A k \in ModifierKeys(a) \cap ModifierKeys(b) :
                (/\ a # b
                 /\ aEventOccurred[a]
                 /\ keyState'[k] \notin {none, idle})
                    => (aEventOccurred'[b] <=>
                          (ChordDown(b) /\ ~Carried(Primary(b)) /\ ~Outranked(b))')]_vars

\* a key flagged at entry is still held and is a modifier of an event that
\* fired on the primary key in hold, while the other slot holds the chord
\* that requires push
C16_Witness ==
    /\ AfterUpdate
    /\ \E a \in EventIdx, b \in EventIdx :
          /\ a # b
          /\ aKeybindSize[a] = 2 /\ aPrimaryKeyState[a] = push
          /\ aKeybindSize[b] = 2 /\ aPrimaryKeyState[b] = hold
          /\ \E k \in ModifierKeys(a) \cap ModifierKeys(b) : Carried(k)
          /\ keyState[Primary(b)] = hold
          /\ aEventOccurred[b] /\ ~aEventOccurred[a]

\* ---- C17 ------------------------------------------------------------------
\* C17 as claimed: in every step of the object in which the exclusivity flag
\* of a key goes from true to false, that key's state is none or idle.
C17_ClearedOnlyWhenNeutral ==
    [][\A k \in KeyIdx :
          (aUsedAsModifier[k] /\ ~aUsedAsModifier'[k])
              => keyState'[k] \in {none, idle}]_vars

\* C17 (amended): a step in which the exclusivity flag of a key goes from true
\* to false is either an update() that refreshed the key to none or idle, or a
\* clear(); clear() drops every flag whatever the key states are, assign never
\* changes a flag.
C17_ClearedByNeutralOrClear ==
    [][/\ \A k \in KeyIdx :
             (aUsedAsModifier[k] /\ ~aUsedAsModifier'[k])
                 => \/ lastOp' = "update" /\ keyState'[k] \in {none, idle}
                    \/ lastOp' = "clear"
       /\ lastOp' = "clear" => \A k \in KeyIdx : ~aUsedAsModifier'[k]
       /\ lastOp' = "assign" => aUsedAsModifier' = aUsedAsModifier]_vars

\* one update() took the flag from a key that went to none while the other
\* key stayed down
C17_Witness ==
    /\ AfterUpdate
    /\ \E k \in KeyIdx, j \in KeyIdx :
          /\ usedAtEntry[k] /\ keyState[k] = none /\ ~aUsedAsModifier[k]
          /\ j # k /\ Active(j)

\* ---- C18 ------------------------------------------------------------------
\* C18: when a chord b passes the exclusivity and the sequence check (its
\* primary key p does not carry the flag and is not none, its modifiers are
\* active and in order), every other chord on p is shorter, and p is not in
\* the required state of b, then no event with primary key p has fired in this
\* update(), not even a shorter chord that is down in its own required state.
C18_LongerShadows ==
    AfterUpdate =>
        \A b \in EventIdx :
            (/\ Assigned(b)
             /\ ~Carried(Primary(b)) /\ keyState[Primary(b)] # none
             /\ ModifiersActive(b) /\ PressedInOrder(b)
             /\ ~InRequiredState(b)
             /\ \A a \in EventIdx \ {b} :
                   (Assigned(a) /\ Primary(a) = Primary(b))
                       => aKeybindSize[a] < aKeybindSize[b])
                => \A f \in EventIdx :
                      (Assigned(f) /\ Primary(f) = Primary(b)) => ~aEventOccurred[f]

\* the shorter chord sits in the lower slot and is down in its required state,
\* the longer one is down but its required state is not met: nothing fired
C18_Witness ==
    /\ AfterUpdate
    /\ aKeybindSize[0] = 1 /\ aKeybindSize[1] = 2
    /\ Primary(0) = Primary(1)
    /\ ChordDown(0) /\ ~Carried(Primary(0))
    /\ ModifiersActive(1) /\ PressedInOrder(1) /\ ~InRequiredState(1)
    /\ ~aEventOccurred[0] /\ ~aEventOccurred[1]

\* ---- C19 ------------------------------------------------------------------
\* the events that read fired
FiredEvents == {e \in EventIdx : aEventOccurred[e]}

\* C19: after update() at most one fired event has any given key as its
\* primary key, so there are no more fired events than primary keys of
\* assigned slots, and no more than Key_Count.
C19_OneFiredPerPrimary ==
    AfterUpdate =>
        /\ \A p \in KeyIdx :
              Cardinality({e \in FiredEvents : Primary(e) = p}) <= 1
        /\ Cardinality(FiredEvents)
              <= Cardinality({Primary(e) : e \in {f \in EventIdx : Assigned(f)}})
        /\ Cardinality(FiredEvents) <= Key_Count

\* both slots hold a chord on one primary key and both chords are down in
\* their required state: one event fired
C19_Witness ==
    /\ AfterUpdate
    /\ Primary(0) = Primary(1)
    /\ ChordDown(0) /\ ChordDown(1)
    /\ Cardinality(FiredEvents) = 1

\* ---- C20 ------------------------------------------------------------------
\* C20: after update() every key that carries the exclusivity flag is in a
\* state that is not none and does not include idle.
C20_FlaggedNotNeutral ==
    AfterUpdate =>
        \A k \in KeyIdx :
            aUsedAsModifier[k] => (keyState[k] # {} /\ "idle" \notin keyState[k])

\* a key that came into update() without the flag got it as an active
\* modifier of an event that fired
C20_Witness ==
    /\ AfterUpdate
    /\ \E k \in KeyIdx :
          /\ aUsedAsModifier[k] /\ ~usedAtEntry[k]
          /\ Active(k)
          /\ \E e \in FiredEvents : k \in ModifierKeys(e)
====
